---- MODULE Spec2Model ----
(***************************************************************************)
(* genispace-operators-enterprise: the document operators (Markdown, Word, *)
(* PDF generation and text extraction) as state machines.                  *)
(*                                                                         *)
(* A text is a sequence of character tokens: "a" is an ordinary character, *)
(* "SP" a space, "TAB" a tab, "CR" \r, "LF" \n, "/" a slash, "#" a hash.    *)
(***************************************************************************)
EXTENDS Integers, Sequences, FiniteSets, TLC

(* ------------------------------ bounds --------------------------------- *)

\* longest Markdown text fed to processMarkdown
MaxLen == 3

\* the values uuidv4().substring(0, 8) is drawn from
NumIds == 2

\* Date.now() runs from 0 to MaxClock
MaxClock == 1

\* a stored file's name is made of at most MaxParts pieces of NameParts
MaxParts == 3

\* an HTML input is made of at most MaxPieces pieces of HtmlPieces
MaxPieces == 4
MaxPaths == 3

(* ------------------------- text primitives ----------------------------- *)

Chars == {"a", "SP", "TAB", "CR", "LF", "/", "#"}

\* JavaScript's \s restricted to the alphabet
Whitespace == {"SP", "TAB", "CR", "LF"}

TextsUpTo(n) == UNION {[1..k -> Chars] : k \in 0..n}

LF == <<"LF">>
CRLF == <<"CR", "LF">>
CR == <<"CR">>

\* the three values validateGenerateMarkdown lets through
ValidLineEndings == {LF, CRLF, CR}

RECURSIVE ReplaceCRLF(_)
\* String.prototype.replace(/\r\n/g, '\n')
ReplaceCRLF(s) ==
  IF s = <<>> THEN <<>>
  ELSE IF Len(s) >= 2 /\ s[1] = "CR" /\ s[2] = "LF"
       THEN <<"LF">> \o ReplaceCRLF(SubSeq(s, 3, Len(s)))
       ELSE <<s[1]>> \o ReplaceCRLF(Tail(s))

RECURSIVE ReplaceChar(_, _, _)
\* String.prototype.replace(/c/g, by) for a one-character pattern c
ReplaceChar(s, c, by) ==
  IF s = <<>> THEN <<>>
  ELSE (IF s[1] = c THEN by ELSE <<s[1]>>) \o ReplaceChar(Tail(s), c, by)

RECURSIVE Split(_, _)
\* String.prototype.split(c): the pieces between the occurrences of c
Split(s, c) ==
  IF \A i \in 1..Len(s) : s[i] # c THEN <<s>>
  ELSE LET i == CHOOSE j \in 1..Len(s) : s[j] = c /\ \A k \in 1..(j-1) : s[k] # c
       IN <<SubSeq(s, 1, i - 1)>> \o Split(SubSeq(s, i + 1, Len(s)), c)

RECURSIVE Join(_, _)
\* Array.prototype.join(sep)
Join(parts, sep) ==
  IF parts = <<>> THEN <<>>
  ELSE IF Len(parts) = 1 THEN parts[1]
  ELSE parts[1] \o sep \o Join(Tail(parts), sep)

RECURSIVE TrimEnd(_)
\* line.replace(/\s+$/g, ''): without the m flag $ is the end of the string
TrimEnd(s) ==
  IF s # <<>> /\ s[Len(s)] \in Whitespace THEN TrimEnd(SubSeq(s, 1, Len(s) - 1))
  ELSE s

EndsWith(s, suffix) ==
  /\ Len(s) >= Len(suffix)
  /\ SubSeq(s, Len(s) - Len(suffix) + 1, Len(s)) = suffix

Includes(s, c) == \E i \in 1..Len(s) : s[i] = c

(* ------------------- MarkdownGenerator: processMarkdown ---------------- *)

\* the generator's defaults; the route constructs it with no configuration
trimTrailingWhitespace == TRUE
ensureTrailingNewline == TRUE
normalizeLineEndingsOption == TRUE

processLineEndings(content, lineEnding) ==
  ReplaceChar(ReplaceChar(ReplaceCRLF(content), "CR", LF), "LF", lineEnding)

normalizeLineEndings(content) ==
  ReplaceChar(ReplaceCRLF(content), "CR", LF)

TrimLines(processed) ==
  IF trimTrailingWhitespace
  THEN LET lines == Split(processed, "LF")
       IN Join([i \in 1..Len(lines) |-> TrimEnd(lines[i])], LF)
  ELSE processed

EnsureTrailing(processed, lineEnding) ==
  IF ensureTrailingNewline /\ ~EndsWith(processed, lineEnding)
  THEN processed \o lineEnding
  ELSE processed

Normalize(processed) ==
  IF normalizeLineEndingsOption THEN normalizeLineEndings(processed) ELSE processed

processMarkdown(markdown, lineEnding) ==
  Normalize(EnsureTrailing(TrimLines(processLineEndings(markdown, lineEnding)), lineEnding))

\* getTemplateContent reads the content as a local file when it looks like a path
LooksLikePath(template) ==
  /\ ~Includes(template, "LF")
  /\ ~Includes(template, "#")
  /\ Includes(template, "/")

\* what a local file named by the content may hold
DiskTexts == {<<"a">>, <<"a", "SP", "CR", "LF", "a">>, <<"SP", "CR", "a", "TAB">>}

\* the outcomes of getTemplateContent: the content itself, or the file it names
getTemplateContent(template) ==
  IF LooksLikePath(template) THEN {template} \cup DiskTexts ELSE {template}


(* ------------------------- JavaScript values --------------------------- *)

Undefined == [kind |-> "undefined"]
Null == [kind |-> "null"]
Number == [kind |-> "number"]
Array == [kind |-> "array"]
\* an object with keys own keys
Object(keys) == [kind |-> "object", keys |-> keys]
\* a string of len characters; src tells what it denotes when used as a template:
\* "inline" text or an http(s) "url"
String(len, src) == [kind |-> "string", len |-> len, src |-> src]

\* !v is false
Truthy(v) ==
  \/ v.kind \in {"number", "array", "object"}
  \/ v.kind = "string" /\ v.len > 0

IsString(v) == v.kind = "string"

\* typeof v === 'object'
TypeofObject(v) == v.kind \in {"object", "array", "null"}

\* Object.keys(v).length > 0 for a truthy templateData
HasKeys(v) == v.kind = "object" /\ v.keys > 0

(* ------------------------------ file names ----------------------------- *)

\* a file name is the sequence of the parts the code joins with "_"
Lit(s) == [lit |-> s]
Ts(t) == [ts |-> t]
Uuid(u) == [uuid |-> u]

Ids == 1..NumIds
Clock == 0..MaxClock

\* req.body.fileName: absent (the empty name) or given
NoName == <<>>
FileNames == {<<Lit("report")>>}

\* the routes' fileName || `${prefix}_${Date.now()}`
RouteFileName(prefix, fileName, t) ==
  IF fileName # NoName THEN fileName ELSE <<Lit(prefix), Ts(t)>>

\* the generators' fileName ? `${fileName}_${uniqueId}` : `${prefix}_${Date.now()}_${uniqueId}`
FinalFileName(prefix, fileName, t, uniqueId) ==
  IF fileName # NoName
  THEN fileName \o <<Uuid(uniqueId)>>
  ELSE <<Lit(prefix), Ts(t), Uuid(uniqueId)>>

\* the output path without the unique identifier of the file name
OutputPathWithoutId(dir, fileName, ext) ==
  [dir |-> dir,
   base |-> SelectSeq(fileName, LAMBDA piece : "uuid" \notin DOMAIN piece),
   ext |-> ext]

\* path.join(outputDir, `${fileName}.${ext}`)
OutputPath(dir, fileName, ext) == [dir |-> dir, base |-> fileName, ext |-> ext]

NoPath == [dir |-> "", base |-> <<>>, ext |-> ""]

MdDir == "markdown-generator"
WordDir == "word-generator"
PdfDir == "pdf-generator"
ExtractDir == "text-extractor"

(* ------------------------------ file system ---------------------------- *)

\* fs.existsSync
Exists(fs, path) == path \in DOMAIN fs

\* fs.writeFileSync: creates or overwrites
WriteFile(fs, path, content) ==
  [p \in DOMAIN fs \cup {path} |-> IF p = path THEN content ELSE fs[p]]

\* fs.unlinkSync
Unlink(fs, path) == [p \in DOMAIN fs \ {path} |-> fs[p]]

\* the directory test never matches, as with a path that does not contain the
\* configured directory string
cleanupFilesOutsideDir(fs, path, dir, unlinkOk) == fs

\* cleanupFiles(path): deletes an existing file of the temp/output directory;
\* a failing unlink (unlinkOk false) is caught and logged
cleanupFiles(fs, path, dir, unlinkOk) ==
  IF Exists(fs, path) /\ path.dir = dir /\ unlinkOk THEN Unlink(fs, path) ELSE fs

(* ------------------------------ validation ----------------------------- *)

MaxMarkdownSize == 10 * 1024 * 1024
MaxHtmlSize == 10 * 1024 * 1024
MaxMarkdownTemplateSize == 5 * 1024 * 1024
MaxFileIdLength == 128

\* lineEnding values a body may carry; validLineEndings = ['\n', '\r\n', '\r']
LineEndingValues == {"undefined", "null", "LF", "CRLF", "CR", "other", "number"}

\* the size check with >= for >
validateGenerateMarkdownInclusive(body) ==
  IF ~Truthy(body.markdownContent) \/ ~IsString(body.markdownContent)
    THEN "MISSING_MARKDOWN_CONTENT"
  ELSE IF body.markdownContent.len >= MaxMarkdownSize
    THEN "MARKDOWN_TOO_LARGE"
  ELSE IF /\ body.templateData # Undefined
          /\ body.templateData # Null
          /\ (~TypeofObject(body.templateData) \/ body.templateData.kind = "array")
    THEN "INVALID_TEMPLATE_DATA"
  ELSE IF /\ body.lineEnding \notin {"undefined", "null"}
          /\ body.lineEnding \notin {"LF", "CRLF", "CR"}
    THEN "INVALID_LINE_ENDING"
  ELSE "OK"

validateGenerateMarkdown(body) ==
  IF ~Truthy(body.markdownContent) \/ ~IsString(body.markdownContent)
    THEN "MISSING_MARKDOWN_CONTENT"
  ELSE IF body.markdownContent.len > MaxMarkdownSize
    THEN "MARKDOWN_TOO_LARGE"
  ELSE IF /\ body.templateData # Undefined
          /\ body.templateData # Null
          /\ (~TypeofObject(body.templateData) \/ body.templateData.kind = "array")
    THEN "INVALID_TEMPLATE_DATA"
  ELSE IF /\ body.lineEnding \notin {"undefined", "null"}
          /\ body.lineEnding \notin {"LF", "CRLF", "CR"}
    THEN "INVALID_LINE_ENDING"
  ELSE "OK"

\* the Word routes reject a null templateData too
InvalidWordTemplateData(templateData) ==
  /\ templateData # Undefined
  /\ (~TypeofObject(templateData) \/ templateData.kind = "array" \/ templateData = Null)

\* the size check with >= for >
validateGenerateFromHTMLInclusive(body) ==
  IF ~Truthy(body.htmlContent) \/ ~IsString(body.htmlContent)
    THEN "MISSING_HTML_CONTENT"
  ELSE IF body.htmlContent.len >= MaxHtmlSize
    THEN "HTML_TOO_LARGE"
  ELSE IF InvalidWordTemplateData(body.templateData)
    THEN "INVALID_TEMPLATE_DATA"
  ELSE "OK"

validateGenerateFromHTML(body) ==
  IF ~Truthy(body.htmlContent) \/ ~IsString(body.htmlContent)
    THEN "MISSING_HTML_CONTENT"
  ELSE IF body.htmlContent.len > MaxHtmlSize
    THEN "HTML_TOO_LARGE"
  ELSE IF InvalidWordTemplateData(body.templateData)
    THEN "INVALID_TEMPLATE_DATA"
  ELSE "OK"

validateGenerateFromMarkdown(body) ==
  IF ~Truthy(body.markdownTemplate) \/ ~IsString(body.markdownTemplate)
    THEN "MISSING_MARKDOWN_TEMPLATE"
  ELSE IF InvalidWordTemplateData(body.templateData)
    THEN "INVALID_TEMPLATE_DATA"
  ELSE IF body.markdownTemplate.len > MaxMarkdownTemplateSize
    THEN "MARKDOWN_TOO_LARGE"
  ELSE "OK"

\* the length check with >= for >
validateExtractTextInclusive(body) ==
  IF ~Truthy(body.fileId) \/ ~IsString(body.fileId)
    THEN "MISSING_FILE_ID"
  ELSE IF body.fileId.len >= MaxFileIdLength
    THEN "FILE_ID_TOO_LONG"
  ELSE "OK"

validateExtractText(body) ==
  IF ~Truthy(body.fileId) \/ ~IsString(body.fileId)
    THEN "MISSING_FILE_ID"
  ELSE IF body.fileId.len > MaxFileIdLength
    THEN "FILE_ID_TOO_LONG"
  ELSE "OK"

(* ------------------- TextExtractor: file extensions -------------------- *)

\* a stored file's name is a sequence of one-character strings without
\* directory separators
NameParts ==
  {<<"a">>, <<".">>, <<"p", "d", "f">>, <<"P", "D", "F">>, <<"d", "o", "c">>,
   <<"D", "o", "c", "x">>, <<"x", "l", "s">>, <<"X", "L", "S", "X">>,
   <<"t", "x", "t">>, <<"e", "x", "e">>}

RECURSIVE NamesOf(_)
NamesOf(n) ==
  IF n = 0 THEN {<<>>}
  ELSE LET shorter == NamesOf(n - 1)
       IN shorter \cup {name \o part : name \in shorter, part \in NameParts}

\* the names a stored file can have
StoredNames == NamesOf(MaxParts)

\* String.prototype.toLowerCase
LowerChar(c) ==
  CASE c = "P" -> "p" [] c = "D" -> "d" [] c = "F" -> "f"
    [] c = "X" -> "x" [] c = "L" -> "l" [] c = "S" -> "s"
    [] OTHER -> c

\* the comparison made case-sensitive
toLowerCaseOmitted(s) == s

toLowerCase(s) == [i \in 1..Len(s) |-> LowerChar(s[i])]

\* path.extname of a name without separators: from the last dot on, and empty
\* when there is no dot, when the only dot starts the name, and for ".."
extname(name) ==
  LET dots == {i \in 1..Len(name) : name[i] = "."}
  IN IF dots = {} THEN <<>>
     ELSE LET last == CHOOSE i \in dots : \A j \in dots : j <= i
          IN IF last = 1 \/ name = <<".", ".">> THEN <<>>
             ELSE SubSeq(name, last, Len(name))

\* String.prototype.replace('.', ''): the first dot only
RemoveFirstDot(s) ==
  IF Includes(s, ".")
  THEN LET i == CHOOSE j \in 1..Len(s) : s[j] = "." /\ \A k \in 1..(j - 1) : s[k] # "."
       IN SubSeq(s, 1, i - 1) \o SubSeq(s, i + 1, Len(s))
  ELSE s

getFileExtension(fileName) == RemoveFirstDot(toLowerCase(extname(fileName)))

supportedFormats ==
  {<<"p", "d", "f">>, <<"d", "o", "c">>, <<"d", "o", "c", "x">>,
   <<"x", "l", "s">>, <<"x", "l", "s", "x">>, <<"t", "x", "t">>}

isSupportedFormat(extension) == toLowerCase(extension) \in supportedFormats

(* ------------------------------- state --------------------------------- *)

VARIABLES
  mdPc,        \* processMarkdown run: "idle", "called" or "written"
  mdContent,   \* its markdownContent
  mdLineEnding,\* its lineEnding
  mdFile,      \* the content written to the .md file
  skipAuth,    \* NODE_ENV === 'development' && SKIP_AUTH === 'true'
  now,         \* Date.now()
  req,         \* per request: the operation, req.body, req.genispace.client
  pc,          \* per request: where its handler is suspended
  loc,         \* per request: the handler's local variables
  resp,        \* per request: the response sent
  log,         \* per request: the steps executed so far, in order
  files,       \* the temp/output directories: path -> content
  storage,     \* platform storage: the files uploaded
  wdPc,        \* the Word document builder: "idle", "called", "built"
  wdHtml,      \* its HTML input
  wdOptions,   \* its wordOptions
  wdDoc,       \* the document built
  tpPc,        \* template filling of the Word generator: "idle", "called", "built"
  tpCall,      \* the route, the template and the templateData of the call
  tpDoc,       \* the paragraphs of the document generated from it
  clPc,        \* a call of cleanupFiles: "idle", "called" or "returned"
  clFiles,     \* the directories when it is called: path -> content
  clAfter,     \* the directories when it has returned
  clPaths,     \* its filePaths
  clFailing    \* the path whose unlinkSync throws, NoPath for none

mdVars == <<mdPc, mdContent, mdLineEnding, mdFile>>

opVars == <<skipAuth, now, req, pc, loc, resp, log, files, storage>>

wdVars == <<wdPc, wdHtml, wdOptions, wdDoc>>

tpVars == <<tpPc, tpCall, tpDoc>>

clVars == <<clPc, clFiles, clAfter, clPaths, clFailing>>

vars == <<mdPc, mdContent, mdLineEnding, mdFile,
          skipAuth, now, req, pc, loc, resp, log, files, storage,
          wdPc, wdHtml, wdOptions, wdDoc, tpPc, tpCall, tpDoc,
          clPc, clFiles, clAfter, clPaths, clFailing>>

NoText == <<"NONE">>

Reqs == {"r1", "r2"}

NoReq == [op |-> "none"]
NoResp == [status |-> 0, code |-> "NONE", fileName |-> <<>>, url |-> <<>>]
NoContent == [by |-> "none"]
\* what the upload finds when its file is gone
Missing == [by |-> "ENOENT"]

NoLoc ==
  [name |-> <<>>, path |-> NoPath, upName |-> <<>>,
   read |-> NoContent, mock |-> FALSE, wrote |-> FALSE,
   gotInfo |-> FALSE, stored |-> <<>>, tempFilePath |-> NoPath,
   download |-> [code |-> "NONE", content |-> NoContent]]

NoFiles == [p \in {} |-> NoContent]

MdInit ==
  /\ mdPc = "idle"
  /\ mdContent = NoText
  /\ mdLineEnding = LF
  /\ mdFile = NoText

OpInit ==
  /\ skipAuth \in BOOLEAN
  /\ now = 0
  /\ req = [r \in Reqs |-> NoReq]
  /\ pc = [r \in Reqs |-> "idle"]
  /\ loc = [r \in Reqs |-> NoLoc]
  /\ resp = [r \in Reqs |-> NoResp]
  /\ log = [r \in Reqs |-> <<>>]
  /\ files = NoFiles
  /\ storage = {}

NoDoc == [sections |-> <<>>, paragraphs |-> <<>>, headings |-> <<>>]

NoOptions == [coverPage |-> [kind |-> "undefined"], includeTOC |-> FALSE]

WdInit ==
  /\ wdPc = "idle"
  /\ wdHtml = <<>>
  /\ wdOptions = NoOptions
  /\ wdDoc = NoDoc

NoCall == [route |-> "none", template |-> <<>>, defined |-> {}]

TpInit ==
  /\ tpPc = "idle"
  /\ tpCall = NoCall
  /\ tpDoc = <<>>

ClInit ==
  /\ clPc = "idle"
  /\ clFiles = NoFiles
  /\ clAfter = NoFiles
  /\ clPaths = <<>>
  /\ clFailing = NoPath

Init == MdInit /\ OpInit /\ WdInit /\ TpInit /\ ClInit

(* --------------------- the Markdown content pipeline ------------------- *)

\* generateMarkdown is called with a non-empty string and a valid lineEnding
MdCall ==
  /\ mdPc = "idle"
  /\ \E content \in TextsUpTo(MaxLen) \ {<<>>}, lineEnding \in ValidLineEndings :
       /\ mdContent' = content
       /\ mdLineEnding' = lineEnding
  /\ mdPc' = "called"
  /\ UNCHANGED mdFile
  /\ UNCHANGED <<opVars, wdVars, tpVars, clVars>>

\* template content, processMarkdown, generateMarkdownFile
MdWrite ==
  /\ mdPc = "called"
  /\ \E templateContent \in getTemplateContent(mdContent) :
       mdFile' = processMarkdown(templateContent, mdLineEnding)
  /\ mdPc' = "written"
  /\ UNCHANGED <<mdContent, mdLineEnding>>
  /\ UNCHANGED <<opVars, wdVars, tpVars, clVars>>

NextMd == MdCall \/ MdWrite

SpecMd == Init /\ [][NextMd]_vars


(* --------------------------- request handling -------------------------- *)

\* sendErrorResponse(res, ..., code, null, 400)
Rejected(code) == [status |-> 400, code |-> code, fileName |-> <<>>, url |-> <<>>]

\* the code of the routes' catch blocks
ErrorCode(op) ==
  CASE op = "md" -> "MARKDOWN_GENERATION_FAILED"
    [] op \in {"wordHtml", "wordMd"} -> "WORD_GENERATION_FAILED"
    [] op = "extract" -> "TEXT_EXTRACTION_FAILED"
    [] op = "pdf" -> "REJECTED"

\* the routes' catch blocks answer 500; generatePDF, called directly, rejects
Failed(op) ==
  [status |-> IF op = "pdf" THEN 0 ELSE 500, code |-> ErrorCode(op),
   fileName |-> <<>>, url |-> <<>>]

\* sendSuccessResponse with the result; generatePDF resolves with it
Success(op, fileName, url) ==
  [status |-> IF op = "pdf" THEN 0 ELSE 200,
   code |-> IF op = "pdf" THEN "RESOLVED" ELSE "OK",
   fileName |-> fileName, url |-> url]

Dir(op) ==
  CASE op = "md" -> MdDir
    [] op \in {"wordHtml", "wordMd"} -> WordDir
    [] op = "pdf" -> PdfDir
    [] op = "extract" -> ExtractDir

Ext(op) ==
  CASE op = "md" -> "md"
    [] op \in {"wordHtml", "wordMd"} -> "docx"
    [] op = "pdf" -> "pdf"
    [] op = "extract" -> ""

\* MarkdownGenerator.checkAuth: the development mode installs a mock client
MdCheckAuth(skip, hasClient) ==
  IF skip THEN "mock" ELSE IF hasClient THEN "client" ELSE "throw"

\* checkAuth that lets a request without a client through
checkAuthAbsent(hasClient) == "client"

\* WordGenerator, PDFGenerator, TextExtractor checkAuth
checkAuth(hasClient) == IF hasClient THEN "client" ELSE "throw"

\* the request ends with a response
End(r, rq, response, events) ==
  /\ req' = [req EXCEPT ![r] = rq]
  /\ pc' = [pc EXCEPT ![r] = "done"]
  /\ resp' = [resp EXCEPT ![r] = response]
  /\ log' = [log EXCEPT ![r] = @ \o events]
  /\ UNCHANGED <<loc, files, storage>>

\* an error thrown inside the handler reaches the route's catch block
Fail(r, events) == End(r, req[r], Failed(req[r].op), events \o <<"error">>)

\* the handler suspends at an await
Suspend(r, rq, at, locals, events) ==
  /\ req' = [req EXCEPT ![r] = rq]
  /\ pc' = [pc EXCEPT ![r] = at]
  /\ loc' = [loc EXCEPT ![r] = locals]
  /\ log' = [log EXCEPT ![r] = @ \o events]
  /\ UNCHANGED <<resp, files, storage>>

\* the outcomes of Mustache.render: some text, the empty string, or a throw
RenderOutcomes == {"text", "empty", "throw"}

MdContents ==
  {Undefined, Number, String(0, "inline"), String(1, "inline"),
   String(MaxMarkdownSize, "inline"), String(MaxMarkdownSize, "url"),
   String(MaxMarkdownSize + 1, "inline")}

TemplateDatas == {Undefined, Null, Object(0), Object(1), Array, String(1, "inline")}

MdBodies ==
  [markdownContent : MdContents, templateData : TemplateDatas,
   fileName : {NoName} \cup FileNames, lineEnding : LineEndingValues]

\* POST /generate of the Markdown generator, up to generateMarkdown's first await
ReceiveMd(r, Bodies) ==
  /\ pc[r] = "idle"
  /\ \E body \in Bodies, hasClient \in BOOLEAN, uniqueId \in Ids,
        rendered \in RenderOutcomes :
       LET rq == [op |-> "md", body |-> body, hasClient |-> hasClient]
           code == validateGenerateMarkdown(body)
           auth == MdCheckAuth(skipAuth, hasClient)
           renders == Truthy(body.templateData) /\ HasKeys(body.templateData)
           routeName == RouteFileName("markdown", body.fileName, now)
           finalFileName == FinalFileName("markdown", routeName, now, uniqueId)
       IN IF code # "OK"
            THEN End(r, rq, Rejected(code), <<"validate", "reject">>)
          ELSE IF auth = "throw"
            THEN End(r, rq, Failed("md"), <<"validate", "error">>)
          ELSE IF renders /\ rendered = "throw"
            THEN End(r, rq, Failed("md"), <<"validate", "auth", "error">>)
          ELSE IF renders /\ rendered = "empty"
            \* generateMarkdown: !markdownContent
            THEN End(r, rq, Failed("md"), <<"validate", "auth", "error">>)
          ELSE Suspend(r, rq, "template",
                       [NoLoc EXCEPT !.name = finalFileName,
                                     !.mock = (auth = "mock")],
                       <<"validate", "auth">>)
  /\ UNCHANGED <<skipAuth, now, mdVars, wdVars, tpVars, clVars>>

HtmlContents ==
  {Undefined, Number, String(0, "inline"), String(1, "inline"),
   String(MaxHtmlSize, "inline"), String(MaxHtmlSize + 1, "inline")}

WordHtmlBodies ==
  [htmlContent : HtmlContents, templateData : TemplateDatas,
   fileName : {NoName} \cup FileNames]

\* POST /generate-from-html, up to await Packer.toBuffer in generateWordFromHTML
ReceiveWordHtml(r, Bodies) ==
  /\ pc[r] = "idle"
  /\ \E body \in Bodies, hasClient \in BOOLEAN, rendered \in RenderOutcomes,
        parsed \in BOOLEAN :
       LET rq == [op |-> "wordHtml", body |-> body, hasClient |-> hasClient]
           code == validateGenerateFromHTML(body)
           renders == Truthy(body.templateData) /\ HasKeys(body.templateData)
           fileName == RouteFileName("word", body.fileName, now)
       IN IF code # "OK"
            THEN End(r, rq, Rejected(code), <<"validate", "reject">>)
          ELSE IF checkAuth(hasClient) = "throw"
            THEN End(r, rq, Failed("wordHtml"), <<"validate", "error">>)
          ELSE IF (renders /\ rendered = "throw") \/ ~parsed
            THEN End(r, rq, Failed("wordHtml"), <<"validate", "auth", "error">>)
          ELSE Suspend(r, rq, "packing", [NoLoc EXCEPT !.name = fileName],
                       <<"validate", "auth", "render">>)
  /\ UNCHANGED <<skipAuth, now, mdVars, wdVars, tpVars, clVars>>

WordMdTemplates ==
  {Undefined, Number, String(0, "inline"), String(1, "inline"),
   String(MaxMarkdownTemplateSize, "inline"), String(MaxMarkdownTemplateSize, "url"),
   String(MaxMarkdownTemplateSize + 1, "inline")}

WordMdBodies ==
  [markdownTemplate : WordMdTemplates, templateData : TemplateDatas,
   fileName : {NoName} \cup FileNames]

\* POST /generate-from-markdown, up to await resolveTemplateSource in generateWord
ReceiveWordMd(r, Bodies) ==
  /\ pc[r] = "idle"
  /\ \E body \in Bodies, hasClient \in BOOLEAN, uniqueId \in Ids :
       LET rq == [op |-> "wordMd", body |-> body, hasClient |-> hasClient]
           code == validateGenerateFromMarkdown(body)
           routeName == RouteFileName("markdown_word", body.fileName, now)
           finalFileName == FinalFileName("word", routeName, now, uniqueId)
       IN IF code # "OK"
            THEN End(r, rq, Rejected(code), <<"validate", "reject">>)
          ELSE IF checkAuth(hasClient) = "throw"
            THEN End(r, rq, Failed("wordMd"), <<"validate", "error">>)
          ELSE Suspend(r, rq, "template", [NoLoc EXCEPT !.name = finalFileName],
                       <<"validate", "auth">>)
  /\ UNCHANGED <<skipAuth, now, mdVars, wdVars, tpVars, clVars>>

PdfTemplates == {Undefined, String(0, "inline"), String(1, "inline"), String(1, "url")}

PdfOptions ==
  [markdownTemplate : PdfTemplates, templateData : TemplateDatas,
   fileName : {NoName} \cup FileNames]

\* generatePDF's check of templateData
InvalidPdfTemplateData(templateData) ==
  \/ templateData \in {Undefined, Null}
  \/ ~TypeofObject(templateData)
  \/ templateData.kind = "array"

\* PDFGenerator.generatePDF(options), up to await getTemplateContent
CallPdf(r, Options) ==
  /\ pc[r] = "idle"
  /\ \E options \in Options, hasClient \in BOOLEAN, uniqueId \in Ids :
       LET rq == [op |-> "pdf", body |-> options, hasClient |-> hasClient]
           finalFileName == FinalFileName("pdf", options.fileName, now, uniqueId)
       IN IF checkAuth(hasClient) = "throw"
            THEN End(r, rq, Failed("pdf"), <<"error">>)
          ELSE IF \/ ~Truthy(options.markdownTemplate)
                  \/ InvalidPdfTemplateData(options.templateData)
            THEN End(r, rq, Failed("pdf"), <<"auth", "validate", "error">>)
          ELSE Suspend(r, rq, "template", [NoLoc EXCEPT !.name = finalFileName],
                       <<"auth", "validate">>)
  /\ UNCHANGED <<skipAuth, now, mdVars, wdVars, tpVars, clVars>>

\* the name given to uploadToPlatformStorage and the one in the response:
\* /generate-from-html evaluates fileName || `word_${Date.now()}` again each time
RepeatedName(rq, l, t) ==
  IF rq.op = "wordHtml" THEN RouteFileName("word", rq.body.fileName, t) ELSE l.name

\* the template string of a request
TemplateOf(rq) ==
  CASE rq.op = "md" -> rq.body.markdownContent
    [] rq.op = "wordHtml" -> rq.body.htmlContent
    [] rq.op \in {"wordMd", "pdf"} -> rq.body.markdownTemplate

\* fs.writeFileSync(outputPath, ...) by request r; a failing write throws
WriteOutput(r, path, events) ==
  /\ files' = WriteFile(files, path, [by |-> r])
  /\ loc' = [loc EXCEPT ![r].path = path, ![r].wrote = TRUE]
  /\ pc' = [pc EXCEPT ![r] = "written"]
  /\ log' = [log EXCEPT ![r] = @ \o events \o <<"write">>]
  /\ UNCHANGED <<req, resp, storage>>

\* after await getTemplateContent / resolveTemplateSource: fill and convert the
\* template; generateMarkdown writes its file here, the others start rendering
AfterTemplate(r) ==
  /\ pc[r] = "template"
  /\ \E fetched \in BOOLEAN, renderOk \in BOOLEAN, writeOk \in BOOLEAN :
       LET op == req[r].op
           fetchFails == TemplateOf(req[r]).src = "url" /\ ~fetched
           renderFails == op # "md" /\ ~renderOk
       IN IF fetchFails \/ renderFails THEN Fail(r, <<>>)
          ELSE IF op = "md"
            THEN IF writeOk
                   THEN WriteOutput(r, OutputPath(Dir(op), loc[r].name, Ext(op)),
                                    <<"render">>)
                   ELSE Fail(r, <<"render">>)
          ELSE Suspend(r, req[r], "packing", loc[r], <<"render">>)
  /\ UNCHANGED <<skipAuth, now, mdVars, wdVars, tpVars, clVars>>

\* after await Packer.toBuffer / page.pdf: the document is written
AfterPack(r) ==
  /\ pc[r] = "packing"
  /\ \E packed \in BOOLEAN, writeOk \in BOOLEAN :
       IF packed /\ writeOk
         THEN WriteOutput(r, OutputPath(Dir(req[r].op), loc[r].name, Ext(req[r].op)),
                          <<>>)
         ELSE Fail(r, <<>>)
  /\ UNCHANGED <<skipAuth, now, mdVars, wdVars, tpVars, clVars>>

\* cleanupFiles called before the upload instead of after it
AfterWriteCleansFirst(r) ==
  /\ pc[r] = "written"
  /\ IF ~Exists(files, loc[r].path) THEN Fail(r, <<"stat">>)
     ELSE /\ files' = cleanupFiles(files, loc[r].path, Dir(req[r].op), TRUE)
          /\ pc' = [pc EXCEPT ![r] = "uploading"]
          /\ loc' = [loc EXCEPT ![r].upName = RepeatedName(req[r], loc[r], now)]
          /\ log' = [log EXCEPT ![r] =
               @ \o <<"stat", "cleanup", "delete", "uploadStart">>]
          /\ UNCHANGED <<req, resp, storage>>
  /\ UNCHANGED <<skipAuth, now, mdVars, wdVars, tpVars, clVars>>

\* after the file is written: fs.statSync, then uploadToPlatformStorage up to
\* await client.storage.uploadFile
AfterWrite(r) ==
  /\ pc[r] = "written"
  /\ IF ~Exists(files, loc[r].path) THEN Fail(r, <<"stat">>)
     ELSE Suspend(r, req[r], "uploading",
                  [loc[r] EXCEPT !.upName = RepeatedName(req[r], loc[r], now)],
                  <<"stat", "uploadStart">>)
  /\ UNCHANGED <<skipAuth, now, mdVars, wdVars, tpVars, clVars>>

\* the SDK reads file.path at some moment of the upload
UploadRead(r) ==
  /\ pc[r] = "uploading"
  /\ ~loc[r].mock
  /\ loc[r].read = NoContent
  /\ loc' = [loc EXCEPT ![r].read =
               IF Exists(files, loc[r].path) THEN files[loc[r].path] ELSE Missing]
  /\ UNCHANGED <<skipAuth, now, req, pc, resp, log, files, storage, mdVars, wdVars, tpVars, clVars>>

\* await uploadFile settles: on success cleanupFiles and the success response,
\* on failure the catch blocks; the mock client of the development mode always
\* answers
UploadReturn(r) ==
  /\ pc[r] = "uploading"
  /\ \E uploaded \in BOOLEAN, unlinkOk \in BOOLEAN :
       LET op == req[r].op
           path == loc[r].path
           content == IF loc[r].mock THEN NoContent ELSE loc[r].read
           canSucceed == loc[r].mock \/ loc[r].read \notin {NoContent, Missing}
           deletes == Exists(files, path) /\ path.dir = Dir(op)
       IN IF canSucceed /\ (uploaded \/ loc[r].mock)
            THEN /\ storage' = storage \cup
                      {[by |-> r, name |-> loc[r].upName, content |-> content]}
                 /\ files' = cleanupFiles(files, path, Dir(op), unlinkOk)
                 /\ pc' = [pc EXCEPT ![r] = "done"]
                 /\ resp' = [resp EXCEPT ![r] =
                      Success(op, RepeatedName(req[r], loc[r], now), loc[r].upName)]
                 /\ log' = [log EXCEPT ![r] = @ \o <<"uploadReturn", "cleanup">> \o
                      (IF deletes
                         THEN (IF unlinkOk THEN <<"delete">> ELSE <<"unlinkFailed">>)
                         ELSE <<>>) \o <<"success">>]
                 /\ UNCHANGED <<req, loc>>
            ELSE Fail(r, <<"uploadReturn">>)
  /\ UNCHANGED <<skipAuth, now, mdVars, wdVars, tpVars, clVars>>

(* ------------------------------ text extractor ------------------------ *)

FileIds ==
  {Undefined, Number, String(0, "inline"), String(1, "inline"),
   String(MaxFileIdLength, "inline"), String(MaxFileIdLength + 1, "inline")}

ExtractBodies == [fileId : FileIds]

\* POST /extract, up to await client.storage.getFile in extractText
ReceiveExtract(r, Bodies) ==
  /\ pc[r] = "idle"
  /\ \E body \in Bodies, hasClient \in BOOLEAN :
       LET rq == [op |-> "extract", body |-> body, hasClient |-> hasClient]
           code == validateExtractText(body)
       IN IF code # "OK"
            THEN End(r, rq, Rejected(code), <<"validate", "reject">>)
          ELSE IF checkAuth(hasClient) = "throw"
            THEN End(r, rq, Failed("extract"), <<"validate", "error">>)
          ELSE Suspend(r, rq, "getFile", NoLoc, <<"validate", "auth", "getFile">>)
  /\ UNCHANGED <<skipAuth, now, mdVars, wdVars, tpVars, clVars>>

\* await getFile settles: the extension of the stored name decides whether
\* getFileFromStorage is called, which suspends at await getFileContent
GetFileReturn(r, Names) ==
  /\ pc[r] = "getFile"
  /\ \E found \in BOOLEAN, fileName \in Names :
       IF ~found THEN Fail(r, <<>>)
       ELSE IF ~isSupportedFormat(getFileExtension(fileName))
         THEN /\ loc' = [loc EXCEPT ![r].stored = fileName, ![r].gotInfo = TRUE]
              /\ pc' = [pc EXCEPT ![r] = "done"]
              /\ resp' = [resp EXCEPT ![r] = Failed("extract")]
              /\ log' = [log EXCEPT ![r] = @ \o <<"error">>]
              /\ UNCHANGED <<req, files, storage>>
       ELSE Suspend(r, req[r], "download",
                    [loc[r] EXCEPT !.stored = fileName, !.gotInfo = TRUE],
                    <<"getFileContent">>)
  /\ UNCHANGED <<skipAuth, now, mdVars, wdVars, tpVars, clVars>>

\* await getFileContent settles: the size check, then the buffer is written to
\* extract_<Date.now()>_<random>.<extension> in the temp directory
DownloadReturn(r) ==
  /\ pc[r] = "download"
  /\ \E downloaded \in BOOLEAN, tooLarge \in BOOLEAN, writeOk \in BOOLEAN,
        random \in Ids :
       LET path == [dir |-> ExtractDir,
                    base |-> <<Lit("extract"), Ts(now), Uuid(random)>>,
                    ext |-> getFileExtension(loc[r].stored)]
       IN IF downloaded /\ ~tooLarge /\ writeOk
            THEN /\ files' = WriteFile(files, path, [by |-> r])
                 /\ loc' = [loc EXCEPT ![r].path = path, ![r].wrote = TRUE]
                 /\ pc' = [pc EXCEPT ![r] = "downloaded"]
                 /\ log' = [log EXCEPT ![r] = @ \o <<"write">>]
                 /\ UNCHANGED <<req, resp, storage>>
            ELSE Fail(r, <<>>)
  /\ UNCHANGED <<skipAuth, now, mdVars, wdVars, tpVars, clVars>>

\* tempFilePath is assigned and extractTextByFormat suspends in its parser
AfterDownload(r) ==
  /\ pc[r] = "downloaded"
  /\ Suspend(r, req[r], "parsing", [loc[r] EXCEPT !.tempFilePath = loc[r].path],
             <<"parse">>)
  /\ UNCHANGED <<skipAuth, now, mdVars, wdVars, tpVars, clVars>>

\* the parser settles; the finally block cleans the temp file up
ParseReturn(r) ==
  /\ pc[r] = "parsing"
  /\ \E parsed \in BOOLEAN, unlinkOk \in BOOLEAN :
       LET path == loc[r].tempFilePath
           deletes == Exists(files, path) /\ path.dir = ExtractDir
       IN /\ files' = IF path # NoPath
                        THEN cleanupFiles(files, path, ExtractDir, unlinkOk)
                        ELSE files
          /\ pc' = [pc EXCEPT ![r] = "done"]
          /\ resp' = [resp EXCEPT ![r] =
               IF parsed THEN Success("extract", <<>>, <<>>) ELSE Failed("extract")]
          /\ log' = [log EXCEPT ![r] = @ \o <<"cleanup">> \o
               (IF deletes
                  THEN (IF unlinkOk THEN <<"delete">> ELSE <<"unlinkFailed">>)
                  ELSE <<>>) \o
               (IF parsed THEN <<"success">> ELSE <<"error">>)]
          /\ UNCHANGED <<req, loc, storage>>
  /\ UNCHANGED <<skipAuth, now, mdVars, wdVars, tpVars, clVars>>

\* the names a stored file has in the mixed workload
FewNames ==
  {<<>>, <<"a">>, <<"a", ".", "p", "d", "f">>, <<"a", ".", "D", "o", "c", "x">>,
   <<"a", ".", "e", "x", "e">>, <<".", "p", "d", "f">>}

\* time passes
Tick ==
  /\ now < MaxClock
  /\ now' = now + 1
  /\ UNCHANGED <<skipAuth, req, pc, loc, resp, log, files, storage, mdVars, wdVars, tpVars, clVars>>

\* one request at a time, every body the routes can receive
Next ==
  \/ Tick
  \/ \E r \in {"r1"} :
       \/ ReceiveMd(r, MdBodies)
       \/ ReceiveWordHtml(r, WordHtmlBodies)
       \/ ReceiveWordMd(r, WordMdBodies)
       \/ CallPdf(r, PdfOptions)
       \/ ReceiveExtract(r, ExtractBodies)
       \/ GetFileReturn(r, FewNames)
       \/ DownloadReturn(r)
       \/ AfterDownload(r)
       \/ ParseReturn(r)
       \/ AfterTemplate(r)
       \/ AfterPack(r)
       \/ AfterWrite(r)
       \/ UploadRead(r)
       \/ UploadReturn(r)

Spec == Init /\ [][Next]_vars

\* POST /extract alone, over every stored name of at most MaxParts pieces
NextExtract ==
  \/ Tick
  \/ \E r \in {"r1"} :
       \/ ReceiveExtract(r, ExtractBodies)
       \/ GetFileReturn(r, StoredNames)
       \/ DownloadReturn(r)
       \/ AfterDownload(r)
       \/ ParseReturn(r)

SpecExtract == Init /\ [][NextExtract]_vars

\* the bodies of two concurrent requests: they pass validation and differ in
\* whether they carry a fileName
MdPairBodies ==
  [markdownContent : {String(1, "inline")}, templateData : {Undefined},
   fileName : {NoName} \cup FileNames, lineEnding : {"LF"}]

WordHtmlPairBodies ==
  [htmlContent : {String(1, "inline")}, templateData : {Undefined},
   fileName : {NoName} \cup FileNames]

WordMdPairBodies ==
  [markdownTemplate : {String(1, "inline")}, templateData : {Undefined},
   fileName : {NoName} \cup FileNames]

PdfPairOptions ==
  [markdownTemplate : {String(1, "inline")}, templateData : {Object(1)},
   fileName : {NoName} \cup FileNames]

\* two requests in flight at once; the handlers interleave at their awaits
NextPair ==
  \/ Tick
  \/ \E r \in Reqs :
       \/ ReceiveMd(r, MdPairBodies)
       \/ ReceiveWordHtml(r, WordHtmlPairBodies)
       \/ ReceiveWordMd(r, WordMdPairBodies)
       \/ CallPdf(r, PdfPairOptions)
       \/ AfterTemplate(r)
       \/ AfterPack(r)
       \/ AfterWrite(r)
       \/ UploadRead(r)
       \/ UploadReturn(r)

SpecPair == Init /\ [][NextPair]_vars

(* --------------------------- Word file download ------------------------ *)

\* path.join(projectRoot, 'outputs', 'word-generator') of the download route
ProjectOutputsWordDir == "outputs/word-generator"

\* the literals of a name that /^[a-zA-Z0-9_-]+\.docx$/ accepts
PlainLiterals == {"report", "word"}

\* a fileName of the body with characters outside [a-zA-Z0-9_-]
OddFileNames == {<<Lit("annual report")>>}

\* /^[a-zA-Z0-9_-]+\.docx$/.test(fileName) for base + ".docx"; a timestamp is
\* made of digits
ValidDownloadName(base) ==
  /\ base # <<>>
  /\ \A i \in 1..Len(base) :
       \/ "ts" \in DOMAIN base[i]
       \/ "lit" \in DOMAIN base[i] /\ base[i].lit \in PlainLiterals

\* GET /download/:fileName
download(fs, base) ==
  IF ~ValidDownloadName(base)
    THEN [code |-> "INVALID_FILENAME", content |-> NoContent]
  ELSE LET filePath == OutputPath(ProjectOutputsWordDir, base, "docx")
       IN IF ~Exists(fs, filePath)
            THEN [code |-> "FILE_NOT_FOUND", content |-> NoContent]
            ELSE [code |-> "SERVED", content |-> fs[filePath]]

\* GET /download/{fileName} with the fileName of the success response of r
DownloadWord(r) ==
  /\ pc[r] = "done"
  /\ req[r].op = "wordHtml"
  /\ resp[r].status = 200
  /\ loc[r].download.code = "NONE"
  /\ loc' = [loc EXCEPT ![r].download = download(files, resp[r].fileName)]
  /\ UNCHANGED <<skipAuth, now, req, pc, resp, log, files, storage, mdVars, wdVars, tpVars, clVars>>

WordDownloadBodies ==
  [htmlContent : {String(1, "inline")}, templateData : {Undefined, Object(1)},
   fileName : {NoName} \cup FileNames \cup OddFileNames]

\* POST /generate-from-html followed by the download of its result
NextDownload ==
  \/ Tick
  \/ \E r \in {"r1"} :
       \/ ReceiveWordHtml(r, WordDownloadBodies)
       \/ AfterPack(r)
       \/ AfterWrite(r)
       \/ UploadRead(r)
       \/ UploadReturn(r)
       \/ DownloadWord(r)

SpecDownload == Init /\ [][NextDownload]_vars

(* ------------------ WordGenerator: HTML to document ------------------- *)

\* an HTML text is a sequence of tags and runs of plain text
Open(tag) == [t |-> "open", tag |-> tag]
Close(tag) == [t |-> "close", tag |-> tag]
Text(word) == [t |-> "text", tag |-> word]

HtmlPieces ==
  {<<Open("h1")>>, <<Close("h1")>>, <<Open("div")>>, <<Close("div")>>,
   <<Text("T")>>,
   <<Open("h1"), Text("T"), Close("h1")>>,
   <<Open("h2"), Text("U"), Close("h2")>>,
   <<Open("hr"), Text("V"), Close("hr")>>}

RECURSIVE HtmlsOf(_)
HtmlsOf(n) ==
  IF n = 0 THEN {<<>>}
  ELSE LET shorter == HtmlsOf(n - 1)
       IN shorter \cup {html \o piece : html \in shorter, piece \in HtmlPieces}

\* the HTML inputs of the document builder
Htmls == HtmlsOf(MaxPieces)

\* the tags of blockRegex: h1-h6, p, div, li, blockquote, pre, hr
BlockTags == {"h1", "h2", "h3", "h4", "h5", "h6", "p", "div", "li",
              "blockquote", "pre", "hr"}

\* replace(/<[^>]*>/g, '').trim(): the text without its tags
StripTags(html) == SelectSeq(html, LAMBDA x : x.t = "text")

\* blockRegex.exec from lastIndex: the leftmost opening block tag that has a
\* closing tag of the same name after it, and the first such closing tag
MatchStart(html, lastIndex) ==
  LET starts == {i \in lastIndex..Len(html) :
                   /\ html[i].t = "open"
                   /\ html[i].tag \in BlockTags
                   /\ \E j \in (i + 1)..Len(html) : html[j] = Close(html[i].tag)}
  IN IF starts = {} THEN 0
     ELSE CHOOSE i \in starts : \A k \in starts : i <= k

MatchEnd(html, i) ==
  CHOOSE j \in (i + 1)..Len(html) :
    /\ html[j] = Close(html[i].tag)
    /\ \A k \in (i + 1)..(j - 1) : html[k] # Close(html[i].tag)

\* matchedContent.match(/<[^>]*>([\s\S]*?)<\/[^>]+>/)[1]: what lies between the
\* opening tag and the first closing tag of any name
ContentOf(html, i) ==
  LET k == CHOOSE j \in (i + 1)..Len(html) :
             /\ html[j].t = "close"
             /\ \A m \in (i + 1)..(j - 1) : html[m].t # "close"
  IN SubSeq(html, i + 1, k - 1)

NoBookmark == <<>>
\* `_Toc${bookmarkCounter.toString().padStart(5, '0')}`
BookmarkId(counter) == <<"_Toc", counter>>

\* the elements of a document
Element(kind, level, text, bookmark) ==
  [kind |-> kind, level |-> level, text |-> text, bookmark |-> bookmark]
Plain(text) == Element("paragraph", "", text, NoBookmark)
NoParagraph == Element("null", "", <<>>, NoBookmark)

\* parseInt(tagName.charAt(1))
ParseLevel(tagName) ==
  CASE tagName = "h1" -> "1" [] tagName = "h2" -> "2" [] tagName = "h3" -> "3"
    [] tagName = "h4" -> "4" [] tagName = "h5" -> "5" [] tagName = "h6" -> "6"
    [] OTHER -> "NaN"

\* level === 1 ? HEADING_1 : ... : HEADING_6
HeadingLevel(level) == IF level \in {"1", "2", "3", "4", "5"} THEN level ELSE "6"

\* tagName.startsWith('h')
StartsWithH(tagName) == tagName \in {"h1", "h2", "h3", "h4", "h5", "h6", "hr"}

\* parseBlockElement(tagName, content, context): the paragraph or null, and the
\* context it leaves
parseBlockElement(tagName, content, context) ==
  IF content = <<>> THEN [paragraph |-> NoParagraph, context |-> context]
  ELSE IF StartsWithH(tagName)
    THEN LET level == ParseLevel(tagName)
             counter == context.bookmarkCounter + 1
             bookmarkId == BookmarkId(counter)
             textContent == StripTags(content)
         IN [paragraph |->
               Element("heading", HeadingLevel(level), textContent, bookmarkId),
             context |->
               [context EXCEPT !.bookmarkCounter = counter,
                               !.headings =
                  Append(@, [level |-> level, text |-> textContent,
                             bookmark |-> bookmarkId])]]
  ELSE IF tagName \in {"p", "div", "pre", "li"}
    \* a paragraph of text runs; a bullet for li
    THEN [paragraph |-> Plain(StripTags(content)), context |-> context]
  \* blockquote has no branch; the hr branch lies behind startsWith('h')
  ELSE [paragraph |-> NoParagraph, context |-> context]

\* the while loop of parseHTMLToParagraphs
RECURSIVE ParseBlocks(_, _, _, _)
ParseBlocks(html, lastIndex, elements, context) ==
  LET i == MatchStart(html, lastIndex)
  IN IF i = 0
       THEN [lastIndex |-> lastIndex, elements |-> elements, context |-> context]
     ELSE LET j == MatchEnd(html, i)
              beforeText == StripTags(SubSeq(html, lastIndex, i - 1))
              before == IF beforeText # <<>> THEN <<Plain(beforeText)>> ELSE <<>>
              parsed == parseBlockElement(html[i].tag, ContentOf(html, i), context)
              block == IF parsed.paragraph # NoParagraph
                         THEN <<parsed.paragraph>> ELSE <<>>
          IN ParseBlocks(html, j + 1, elements \o before \o block, parsed.context)

\* parseHTMLToParagraphs(html): {paragraphs, headings}
parseHTMLToParagraphs(html) ==
  LET loop == ParseBlocks(html, 1, <<>>,
                          [bookmarkCounter |-> 0, headings |-> <<>>])
      remainingText == StripTags(SubSeq(html, loop.lastIndex, Len(html)))
      elements == IF remainingText # <<>>
                    THEN Append(loop.elements, Plain(remainingText))
                    ELSE loop.elements
      all == StripTags(html)
  IN [paragraphs |-> IF elements = <<>> /\ all # <<>> THEN <<Plain(all)>>
                     ELSE elements,
      headings |-> loop.context.headings]

\* createTableOfContents(headings): title, blank line, one linked entry per
\* heading, page break
createTableOfContents(headings) ==
  <<Element("tocTitle", "1", <<>>, NoBookmark),
    Element("tocBlank", "", <<>>, NoBookmark)>>
  \o [n \in 1..Len(headings) |->
        Element("tocEntry", headings[n].level, headings[n].text,
                headings[n].bookmark)]
  \o <<Element("tocPageBreak", "", <<>>, NoBookmark)>>

\* createCoverPage always answers {table, isTable: true}
CoverTable == Element("cover", "", <<>>, NoBookmark)

TocKinds == {"tocTitle", "tocBlank", "tocEntry", "tocPageBreak"}

\* the body is put in front of the table of contents
generateWordFromHTMLBodyFirst(htmlTemplate, options) ==
  LET parsed == parseHTMLToParagraphs(htmlTemplate)
      cover == IF Truthy(options.coverPage)
                 THEN <<[children |-> <<CoverTable>>]>> ELSE <<>>
      toc == IF options.includeTOC /\ Len(parsed.headings) > 0
               THEN createTableOfContents(parsed.headings) ELSE <<>>
  IN [sections |-> cover \o <<[children |-> parsed.paragraphs \o toc]>>,
      paragraphs |-> parsed.paragraphs,
      headings |-> parsed.headings]

\* generateWordFromHTML up to new Document({sections})
generateWordFromHTML(htmlTemplate, options) ==
  LET parsed == parseHTMLToParagraphs(htmlTemplate)
      cover == IF Truthy(options.coverPage)
                 THEN <<[children |-> <<CoverTable>>]>> ELSE <<>>
      toc == IF options.includeTOC /\ Len(parsed.headings) > 0
               THEN createTableOfContents(parsed.headings) ELSE <<>>
  IN [sections |-> cover \o <<[children |-> toc \o parsed.paragraphs]>>,
      paragraphs |-> parsed.paragraphs,
      headings |-> parsed.headings]

WordOptions == [coverPage : {Undefined, Object(1)}, includeTOC : BOOLEAN]

\* generateWordFromHTML is called with an HTML text and wordOptions
WdCall ==
  /\ wdPc = "idle"
  /\ \E html \in Htmls, options \in WordOptions :
       /\ wdHtml' = html
       /\ wdOptions' = options
  /\ wdPc' = "called"
  /\ UNCHANGED wdDoc
  /\ UNCHANGED <<mdVars, opVars, tpVars, clVars>>

\* the sections of the document are built
WdBuild ==
  /\ wdPc = "called"
  /\ wdDoc' = generateWordFromHTML(wdHtml, wdOptions)
  /\ wdPc' = "built"
  /\ UNCHANGED <<wdHtml, wdOptions>>
  /\ UNCHANGED <<mdVars, opVars, tpVars, clVars>>

NextWd == WdCall \/ WdBuild

SpecWd == Init /\ [][NextWd]_vars

(* ------------------- WordGenerator: template filling ------------------ *)

\* a Mustache tag {{name}} in a template
Var(name) == [t |-> "var", tag |-> name]

VarNames == {"name", "title"}

TemplateTokens ==
  {Text("T"), Open("h1"), Close("h1")} \cup {Var(name) : name \in VarNames}

\* the templates of at most MaxLen tokens
Templates == UNION {[1..k -> TemplateTokens] : k \in 0..MaxLen}

\* a templateData object with the given keys
DataWith(names) == [kind |-> "object", keys |-> Cardinality(names), defined |-> names]

\* the characters of a tag left in the text
Literal(name) ==
  CASE name = "name" -> Text("{{name}}")
    [] name = "title" -> Text("{{title}}")

\* Mustache.render(template, view): a tag gives the value of its variable, and
\* nothing when the view does not define it
MustacheRender(template, view) ==
  LET Value(x) == IF x.t # "var" THEN <<x>>
                  ELSE IF x.tag \in view.defined THEN <<Text("X")>>
                  ELSE <<>>
      F[n \in 0..Len(template)] ==
        IF n = 0 THEN <<>> ELSE F[n - 1] \o Value(template[n])
  IN F[Len(template)]

\* a template handed on as it is: its tags are ordinary characters
Unrendered(template) ==
  [n \in 1..Len(template) |->
     IF template[n].t = "var" THEN Literal(template[n].tag) ELSE template[n]]

\* POST /generate-from-html: Mustache runs only for a templateData with keys
FillHtml(htmlContent, templateData) ==
  IF Truthy(templateData) /\ HasKeys(templateData)
  THEN MustacheRender(htmlContent, templateData)
  ELSE Unrendered(htmlContent)

\* generateWord: Mustache.render(templateContent, templateData), always
FillMarkdown(templateContent, templateData) ==
  MustacheRender(templateContent, templateData)

\* a route of the Word generator is called; an omitted templateData is {}
TpCall ==
  /\ tpPc = "idle"
  /\ \E route \in {"html", "markdown"}, template \in Templates,
        names \in SUBSET VarNames :
       tpCall' = [route |-> route, template |-> template, defined |-> names]
  /\ tpPc' = "called"
  /\ UNCHANGED tpDoc
  /\ UNCHANGED <<mdVars, opVars, wdVars, clVars>>

\* the template is filled and the document's paragraphs are built from it
TpBuild ==
  /\ tpPc = "called"
  /\ LET templateData == DataWith(tpCall.defined)
         filled == IF tpCall.route = "html"
                     THEN FillHtml(tpCall.template, templateData)
                     ELSE FillMarkdown(tpCall.template, templateData)
     IN tpDoc' = parseHTMLToParagraphs(filled).paragraphs
  /\ tpPc' = "built"
  /\ UNCHANGED tpCall
  /\ UNCHANGED <<mdVars, opVars, wdVars, clVars>>

NextTp == TpCall \/ TpBuild

SpecTp == Init /\ [][NextTp]_vars

(* ------------------------- cleanupFiles(...filePaths) ------------------- *)

\* the paths a caller hands over: two files of the output directory and one
\* that lies outside it
ClPaths ==
  {OutputPath(MdDir, <<Lit("report"), Uuid(1)>>, "md"),
   OutputPath(MdDir, <<Lit("report"), Uuid(2)>>, "md"),
   OutputPath("elsewhere", <<Lit("report")>>, "md")}

RECURSIVE PathLists(_)
PathLists(n) ==
  IF n = 0 THEN {<<>>}
  ELSE LET shorter == PathLists(n - 1)
       IN shorter \cup {Append(l, p) : l \in {k \in shorter : Len(k) = n - 1},
                                       p \in ClPaths}

FilePathLists == PathLists(MaxPaths) \ {<<>>}

\* the directory contents a call can find
ClDirectories ==
  {[p \in present |-> [by |-> "other"]] : present \in SUBSET ClPaths}

\* the try block around the whole loop: the first failing unlink ends the call
RECURSIVE cleanupFilesStopsAtFailure(_, _, _, _)
cleanupFilesStopsAtFailure(fs, filePaths, dir, failing) ==
  IF filePaths = <<>> THEN fs
  ELSE IF Exists(fs, Head(filePaths)) /\ Head(filePaths).dir = dir
          /\ Head(filePaths) = failing
    THEN fs
  ELSE cleanupFilesStopsAtFailure(
         cleanupFiles(fs, Head(filePaths), dir, TRUE), Tail(filePaths), dir, failing)

\* cleanupFiles(...filePaths): the loop over the paths, each in its own try block
RECURSIVE cleanupFilesEach(_, _, _, _)
cleanupFilesEach(fs, filePaths, dir, failing) ==
  IF filePaths = <<>> THEN fs
  ELSE cleanupFilesEach(
         cleanupFiles(fs, Head(filePaths), dir, Head(filePaths) # failing),
         Tail(filePaths), dir, failing)

\* cleanupFiles is called with some paths; one unlinkSync may throw
ClCall ==
  /\ clPc = "idle"
  /\ \E fs \in ClDirectories, filePaths \in FilePathLists,
        failing \in ClPaths \cup {NoPath} :
       /\ clFiles' = fs
       /\ clPaths' = filePaths
       /\ clFailing' = failing
  /\ clPc' = "called"
  /\ UNCHANGED clAfter
  /\ UNCHANGED <<mdVars, opVars, wdVars, tpVars>>

\* the call returns
ClRun ==
  /\ clPc = "called"
  /\ clAfter' = cleanupFilesEach(clFiles, clPaths, MdDir, clFailing)
  /\ clPc' = "returned"
  /\ UNCHANGED <<clFiles, clPaths, clFailing>>
  /\ UNCHANGED <<mdVars, opVars, wdVars, tpVars>>

\* generateMarkdown of one request next to a call of cleanupFiles
NextCleanup ==
  \/ ClCall
  \/ ClRun
  \/ \E r \in {"r1"} :
       \/ ReceiveMd(r, MdPairBodies)
       \/ AfterTemplate(r)
       \/ AfterWrite(r)
       \/ UploadRead(r)
       \/ UploadReturn(r)

SpecCleanup == Init /\ [][NextCleanup]_vars

(* ------------------------------- claims -------------------------------- *)

\* every line break of text is exactly the sequence lineEnding
LineBreaksAre(text, lineEnding) ==
  CASE lineEnding = LF -> ~Includes(text, "CR")
    [] lineEnding = CR -> ~Includes(text, "LF")
    [] lineEnding = CRLF ->
         \A i \in 1..Len(text) :
           /\ text[i] = "CR" => (i < Len(text) /\ text[i + 1] = "LF")
           /\ text[i] = "LF" => (i > 1 /\ text[i - 1] = "CR")

\* C2: every line break in the content written to the .md file is exactly the
\* requested lineEnding (LF, CRLF or CR), under the default configuration.
C2_LineEndingHonoured ==
  mdPc = "written" => LineBreaksAre(mdFile, mdLineEnding)

\* C3: no line of the produced content ends with a space or a tab right before
\* its line break or before the end of the content.
C3_NoTrailingWhitespace ==
  mdPc = "written" =>
    \A i \in 1..Len(mdFile) :
      mdFile[i] \in {"SP", "TAB"} =>
        (i < Len(mdFile) /\ mdFile[i + 1] \notin {"CR", "LF"})

\* the generator operations: POST /generate (generateMarkdown), POST
\* /generate-from-html, POST /generate-from-markdown (generateWord), generatePDF
Generators == {"md", "wordHtml", "wordMd", "pdf"}

Has(events, e) == \E i \in 1..Len(events) : events[i] = e

\* e occurs in events and every d before... : each d occurs only after some e
Before(events, e, d) ==
  \A j \in 1..Len(events) : events[j] = d => \E i \in 1..(j - 1) : events[i] = e

Succeeded(r) == resp[r].code \in {"OK", "RESOLVED"}

\* C1: once generateMarkdown, generateWord or generatePDF has finished, with a
\* result or with an error, the output file it wrote is no longer in the
\* output directory (a delete that itself failed set aside).
C1_TempFilesCleaned ==
  \A r \in Reqs :
    (/\ req[r].op \in {"md", "wordMd", "pdf"}
     /\ pc[r] = "done"
     /\ loc[r].wrote
     /\ ~Has(log[r], "unlinkFailed"))
      => ~Exists(files, loc[r].path)

\* the first failing check of POST /generate, in the documented order
C4_Expected(body) ==
  IF body.markdownContent.kind # "string" \/ body.markdownContent.len = 0
    THEN "MISSING_MARKDOWN_CONTENT"
  ELSE IF body.markdownContent.len > 10 * 1024 * 1024
    THEN "MARKDOWN_TOO_LARGE"
  ELSE IF body.templateData.kind \notin {"undefined", "null", "object"}
    THEN "INVALID_TEMPLATE_DATA"
  ELSE IF body.lineEnding \notin {"undefined", "null", "LF", "CRLF", "CR"}
    THEN "INVALID_LINE_ENDING"
  ELSE "OK"

\* C4: POST /generate answers an invalid request with 400 and the code of the
\* first failing check (content, size, templateData, lineEnding); a rejected
\* request writes no file and uploads nothing; a valid request never gets 400.
C4_MarkdownValidation ==
  \A r \in Reqs :
    (req[r].op = "md" /\ pc[r] # "idle") =>
      IF C4_Expected(req[r].body) # "OK"
      THEN /\ pc[r] = "done"
           /\ resp[r].status = 400
           /\ resp[r].code = C4_Expected(req[r].body)
           /\ ~loc[r].wrote
           /\ ~Has(log[r], "write") /\ ~Has(log[r], "uploadStart")
           /\ \A p \in DOMAIN files : files[p].by # r
           /\ \A u \in storage : u.by # r
      ELSE resp[r].status # 400

C4_Witness ==
  \E r \in Reqs :
    /\ req[r].op = "md"
    /\ req[r].body.markdownContent.kind = "string"
    /\ req[r].body.markdownContent.len = 10 * 1024 * 1024
    /\ req[r].body.templateData = Null
    /\ resp[r].status = 400
    /\ resp[r].code = "INVALID_LINE_ENDING"

\* C5: the file generated by POST /generate is named
\* {fileName}_{timestamp}_{uuid}.md when the request gives a fileName and
\* markdown_{timestamp}_{uuid}.md when it gives none.
C5_FileNameFormat ==
  \A r \in Reqs :
    (req[r].op = "md" /\ loc[r].wrote) =>
      /\ loc[r].path.ext = "md"
      /\ \E t \in Clock, u \in Ids :
           loc[r].path.base =
             (IF req[r].body.fileName # NoName
                THEN req[r].body.fileName
                ELSE <<Lit("markdown")>>) \o <<Ts(t), Uuid(u)>>

\* the request failed at fs.statSync: its output file was gone
FailedAtStat(r) ==
  /\ Len(log[r]) >= 2
  /\ SubSeq(log[r], Len(log[r]) - 1, Len(log[r])) = <<"stat", "error">>

\* C6: two concurrent POST /generate-from-html requests do not disturb each
\* other: while a request's upload has not read its file yet, the file is
\* there and holds the request's own document; the upload reads that document;
\* what is stored for a request is the document it generated; and no request
\* fails because its file is gone.
C6_RequestsIndependent ==
  \A r \in Reqs :
    req[r].op = "wordHtml" =>
      /\ (pc[r] = "uploading" /\ loc[r].read = NoContent)
           => (Exists(files, loc[r].path) /\ files[loc[r].path].by = r)
      /\ loc[r].read \in {NoContent, [by |-> r]}
      /\ \A u \in storage : u.by = r => u.content.by = r
      /\ ~FailedAtStat(r)

\* C7: a generating operation runs validate, render, write, upload, delete in
\* this order: no upload starts before the write, no delete before the upload
\* returned, no success before the upload returned a URL, and nothing runs
\* after an error.
C7_StepOrder ==
  \A r \in Reqs :
    req[r].op \in Generators =>
      /\ Before(log[r], "validate", "render")
      /\ Before(log[r], "render", "write")
      /\ Before(log[r], "write", "uploadStart")
      /\ Has(log[r], "uploadStart") => loc[r].wrote
      /\ Before(log[r], "uploadStart", "uploadReturn")
      /\ Before(log[r], "uploadReturn", "delete")
      /\ Before(log[r], "uploadReturn", "success")
      /\ Succeeded(r) =>
           \E u \in storage : u.by = r /\ u.name = resp[r].url /\ u.name # <<>>
      /\ \A i \in 1..Len(log[r]) : log[r][i] = "error" => i = Len(log[r])
      /\ Has(log[r], "error") => (pc[r] = "done" /\ ~Succeeded(r))

C7_Witness ==
  \E r \in Reqs :
    /\ req[r].op = "wordHtml"
    /\ Succeeded(r)
    /\ Has(log[r], "delete")

\* C8: POST /extract answers 400 MISSING_FILE_ID when fileId is absent, empty
\* or no string, 400 FILE_ID_TOO_LONG when it is longer than 128 characters
\* (128 pass); a rejected request calls no storage API and writes no temp file.
C8_ExtractValidation ==
  \A r \in Reqs :
    (req[r].op = "extract" /\ pc[r] # "idle") =>
      LET fileId == req[r].body.fileId
          missing == fileId.kind # "string" \/ fileId.len = 0
          tooLong == ~missing /\ fileId.len > 128
      IN /\ missing => (resp[r].status = 400 /\ resp[r].code = "MISSING_FILE_ID")
         /\ tooLong => (resp[r].status = 400 /\ resp[r].code = "FILE_ID_TOO_LONG")
         /\ (missing \/ tooLong) =>
              /\ pc[r] = "done"
              /\ ~Has(log[r], "getFile") /\ ~Has(log[r], "getFileContent")
              /\ ~loc[r].wrote
              /\ \A p \in DOMAIN files : files[p].by # r
         /\ (~missing /\ ~tooLong) => resp[r].status # 400

C8_Witness ==
  \E r \in Reqs :
    /\ req[r].op = "extract"
    /\ req[r].body.fileId.kind = "string"
    /\ req[r].body.fileId.len = 129
    /\ resp[r].code = "FILE_ID_TOO_LONG"

\* the same letter, whatever the case
C9_SameLetter(c, d) ==
  \/ c = d
  \/ {c, d} \in {{"p", "P"}, {"d", "D"}, {"f", "F"}, {"x", "X"}, {"l", "L"}, {"s", "S"}}

\* name ends, after at least one other character, with a dot and format
C9_HasExtension(name, format) ==
  /\ Len(name) > Len(format) + 1
  /\ name[Len(name) - Len(format)] = "."
  /\ \A i \in 1..Len(format) :
       C9_SameLetter(name[Len(name) - Len(format) + i], format[i])

C9_Supported(name) ==
  \E format \in {<<"p", "d", "f">>, <<"d", "o", "c">>, <<"d", "o", "c", "x">>,
                 <<"x", "l", "s">>, <<"x", "l", "s", "x">>, <<"t", "x", "t">>} :
    C9_HasExtension(name, format)

\* C9: a stored name whose extension is not pdf, doc, docx, xls, xlsx or txt in
\* any letter case (or that has no extension) ends the extraction with 500
\* TEXT_EXTRACTION_FAILED, no getFileContent call and no temp file; a supported
\* extension lets the request go on to the download.
C9_UnsupportedFormat ==
  \A r \in Reqs :
    (req[r].op = "extract" /\ loc[r].gotInfo) =>
      IF C9_Supported(loc[r].stored)
      THEN Has(log[r], "getFileContent")
      ELSE /\ pc[r] = "done"
           /\ resp[r].status = 500
           /\ resp[r].code = "TEXT_EXTRACTION_FAILED"
           /\ ~Has(log[r], "getFileContent")
           /\ ~loc[r].wrote
           /\ \A p \in DOMAIN files : files[p].by # r

C9_Witness ==
  \E r \in Reqs :
    /\ req[r].op = "extract"
    /\ loc[r].gotInfo
    /\ loc[r].stored = <<"a", ".", "P", "D", "F">>
    /\ loc[r].wrote

\* C10: when extractText settles after it wrote the downloaded file to the temp
\* directory, the file is gone, whether the text was returned or the parser
\* threw, unless the delete itself failed.
C10_TempFileRemoved ==
  \A r \in Reqs :
    (/\ req[r].op = "extract"
     /\ pc[r] = "done"
     /\ loc[r].wrote
     /\ ~Has(log[r], "unlinkFailed"))
      => ~Exists(files, loc[r].path)

C10_Witness ==
  \E r \in Reqs :
    /\ req[r].op = "extract"
    /\ pc[r] = "done"
    /\ loc[r].wrote
    /\ resp[r].status = 500
    /\ Has(log[r], "delete")
    /\ ~Exists(files, loc[r].path)

\* C11: after a successful POST /generate-from-html, GET /download/{fileName}
\* with the fileName of the response serves the document that request generated.
C11_Downloadable ==
  \A r \in Reqs :
    (req[r].op = "wordHtml" /\ loc[r].download.code # "NONE") =>
      /\ loc[r].download.code = "SERVED"
      /\ loc[r].download.content = [by |-> r]

\* in children every table-of-contents paragraph comes before every other element
C12_TocFirst(children) ==
  \A a, b \in 1..Len(children) :
    (children[a].kind \in TocKinds /\ children[b].kind \notin TocKinds) => a < b

C13_HeadingParagraphs == SelectSeq(wdDoc.paragraphs, LAMBDA e : e.kind = "heading")

\* the table-of-contents entries emitted into the document
C13_TocEntries ==
  {e \in UNION {{s.children[a] : a \in 1..Len(s.children)} :
                s \in {wdDoc.sections[n] : n \in 1..Len(wdDoc.sections)}} :
     e.kind = "tocEntry"}

\* C13: the bookmark ids of the heading paragraphs are pairwise distinct, the
\* headings list has one entry per heading paragraph in document order, and
\* every table-of-contents entry has the anchor of exactly one heading
\* paragraph, which has the entry's text and level.
C13_TocLinks ==
  wdPc = "built" =>
    LET hp == C13_HeadingParagraphs
    IN /\ \A a, b \in 1..Len(hp) : a # b => hp[a].bookmark # hp[b].bookmark
       /\ Len(wdDoc.headings) = Len(hp)
       /\ \A n \in 1..Len(hp) :
            /\ wdDoc.headings[n].bookmark = hp[n].bookmark
            /\ wdDoc.headings[n].text = hp[n].text
       /\ \A e \in C13_TocEntries :
            /\ Cardinality({n \in 1..Len(hp) : hp[n].bookmark = e.bookmark}) = 1
            /\ \A n \in 1..Len(hp) :
                 hp[n].bookmark = e.bookmark =>
                   (hp[n].text = e.text /\ hp[n].level = e.level)

\* html is properly nested: every closing tag closes the innermost open element
RECURSIVE C14_Nested(_, _)
C14_Nested(html, stack) ==
  IF html = <<>> THEN stack = <<>>
  ELSE LET x == Head(html)
       IN IF x.t = "open" THEN C14_Nested(Tail(html), <<x.tag>> \o stack)
          ELSE IF x.t = "close"
            THEN /\ stack # <<>>
                 /\ Head(stack) = x.tag
                 /\ C14_Nested(Tail(html), Tail(stack))
          ELSE C14_Nested(Tail(html), stack)

\* the h1-h6 elements of a properly nested html, as the positions of their
\* opening tags
C14_HeadingElements(html) ==
  {i \in 1..Len(html) :
     html[i].t = "open" /\ html[i].tag \in {"h1", "h2", "h3", "h4", "h5", "h6"}}

\* the text of the element opened at i, up to its own closing tag
C14_TextOf(html, i) ==
  LET j == CHOOSE k \in (i + 1)..Len(html) :
             /\ html[k] = Close(html[i].tag)
             /\ C14_Nested(SubSeq(html, i + 1, k - 1), <<>>)
  IN SelectSeq(SubSeq(html, i + 1, j - 1), LAMBDA x : x.t = "text")

\* C14: in a properly nested HTML made of h1-h6 headings that hold only text,
\* div and text, every heading with text yields one heading paragraph and, with
\* includeTOC, one table-of-contents entry, also when it lies inside a div.
C14_HeadingsExtracted ==
  (/\ wdPc = "built"
   /\ C14_Nested(wdHtml, <<>>)
   /\ \A i \in 1..Len(wdHtml) : wdHtml[i].tag # "hr"
   /\ \A i \in C14_HeadingElements(wdHtml) : wdHtml[i + 1].t # "open")
    => LET wanted == {i \in C14_HeadingElements(wdHtml) :
                        C14_TextOf(wdHtml, i) # <<>>}
           paragraphs == SelectSeq(wdDoc.paragraphs, LAMBDA e : e.kind = "heading")
           children == wdDoc.sections[Len(wdDoc.sections)].children
           entries == SelectSeq(children, LAMBDA e : e.kind = "tocEntry")
       IN /\ Len(paragraphs) = Cardinality(wanted)
          /\ wdOptions.includeTOC => Len(entries) = Cardinality(wanted)

\* C15: in both routes of the Word generator, whatever templateData holds, a
\* tag {{name}} whose variable templateData does not define leaves no text in
\* the generated document.
C15_UndefinedVariableEmpty ==
  tpPc = "built" =>
    \A name \in VarNames \ tpCall.defined :
      \A n \in 1..Len(tpDoc) : \A k \in 1..Len(tpDoc[n].text) :
        tpDoc[n].text[k] # Literal(name)

\* templateData is absent or a plain object
C16_ValidTemplateData(templateData) == templateData.kind \in {"undefined", "object"}

\* the request was refused by its validator and did nothing else
C16_OnlyRejected(r) ==
  /\ pc[r] = "done"
  /\ ~loc[r].wrote
  /\ ~Has(log[r], "render") /\ ~Has(log[r], "write") /\ ~Has(log[r], "uploadStart")
  /\ \A p \in DOMAIN files : files[p].by # r
  /\ \A u \in storage : u.by # r

\* C16: POST /generate-from-html answers 400 HTML_TOO_LARGE exactly for a string
\* htmlContent longer than 10*1024*1024; POST /generate-from-markdown answers 400
\* MARKDOWN_TOO_LARGE exactly for a string markdownTemplate longer than
\* 5*1024*1024 with a valid templateData; content of exactly the limit is not
\* refused; a refused request generates and uploads nothing.
C16_WordSizeLimits ==
  \A r \in Reqs :
    /\ (req[r].op = "wordHtml" /\ pc[r] # "idle") =>
         LET content == req[r].body.htmlContent
             tooLarge == content.kind = "string" /\ content.len > 10 * 1024 * 1024
         IN /\ (resp[r].status = 400 /\ resp[r].code = "HTML_TOO_LARGE") <=> tooLarge
            /\ resp[r].code = "HTML_TOO_LARGE" => C16_OnlyRejected(r)
            /\ (/\ content.kind = "string"
                /\ content.len = 10 * 1024 * 1024
                /\ C16_ValidTemplateData(req[r].body.templateData))
                 => resp[r].status # 400
    /\ (req[r].op = "wordMd" /\ pc[r] # "idle") =>
         LET template == req[r].body.markdownTemplate
             valid == C16_ValidTemplateData(req[r].body.templateData)
             tooLarge == template.kind = "string" /\ template.len > 5 * 1024 * 1024
         IN /\ (resp[r].status = 400 /\ resp[r].code = "MARKDOWN_TOO_LARGE")
                 <=> (tooLarge /\ valid)
            /\ resp[r].code = "MARKDOWN_TOO_LARGE" => C16_OnlyRejected(r)
            /\ (/\ template.kind = "string"
                /\ template.len = 5 * 1024 * 1024
                /\ valid)
                 => resp[r].status # 400

C16_Witness ==
  \E r \in Reqs :
    /\ req[r].op = "wordHtml"
    /\ req[r].body.htmlContent.kind = "string"
    /\ req[r].body.htmlContent.len = 10 * 1024 * 1024
    /\ loc[r].wrote

\* the request did nothing but validate its body and answer with an error
C17_NothingDone(r) ==
  /\ \A e \in {"auth", "render", "getFile", "getFileContent", "parse", "write",
               "stat", "uploadStart", "uploadReturn", "cleanup"} : ~Has(log[r], e)
  /\ loc[r] = NoLoc
  /\ \A p \in DOMAIN files : files[p].by # r
  /\ \A u \in storage : u.by # r

\* C17: outside the development mode, a request to POST /extract, POST /generate,
\* POST /generate-from-html or POST /generate-from-markdown that carries no
\* client ends with an error response as soon as it is handled, and it has read
\* no template, written no file and made no platform storage call.
C17_AuthFirst ==
  \A r \in Reqs :
    (/\ req[r].op \in {"extract", "md", "wordHtml", "wordMd"}
     /\ pc[r] # "idle"
     /\ ~req[r].hasClient
     /\ ~skipAuth)
      => /\ pc[r] = "done"
         /\ resp[r].status \in {400, 500}
         /\ ~Succeeded(r)
         /\ C17_NothingDone(r)

C17_Witness ==
  \E r \in Reqs :
    /\ req[r].op = "wordMd"
    /\ ~req[r].hasClient
    /\ ~skipAuth
    /\ resp[r].status = 500
    /\ log[r] = <<"validate", "error">>

\* the options are those of the test scripts: a template and a templateData object
C18_ValidOptions(options) ==
  /\ options.markdownTemplate.kind = "string"
  /\ options.markdownTemplate.len > 0
  /\ options.templateData.kind = "object"

\* C18: generatePDF called with a template, a templateData object and a fileName
\* but without a request object gets past its authentication check: it does not
\* reject before it has read its template.
C18_StandaloneCall ==
  \A r \in Reqs :
    (/\ req[r].op = "pdf"
     /\ pc[r] # "idle"
     /\ ~req[r].hasClient
     /\ C18_ValidOptions(req[r].body))
      => Has(log[r], "auth")

\* C19: a failing delete does not fail the operation and does not end the
\* cleanup: a generateMarkdown whose temp file could not be deleted after the
\* upload still answers with its success result and the uploaded URL, and a
\* returned call of cleanupFiles has removed every file of its directory among
\* its paths except the one whose delete failed, and has touched no other file.
C19_BestEffortCleanup ==
  /\ \A r \in Reqs :
       (pc[r] = "done" /\ Has(log[r], "uploadReturn") /\ Has(log[r], "unlinkFailed"))
         => /\ Succeeded(r)
            /\ resp[r].status = 200
            /\ resp[r].url = loc[r].upName
            /\ \E u \in storage : u.by = r /\ u.name = resp[r].url
  /\ clPc = "returned" =>
       \A p \in ClPaths :
         LET asked == \E i \in 1..Len(clPaths) : clPaths[i] = p
         IN Exists(clAfter, p) <=>
              (Exists(clFiles, p) /\ ~(asked /\ p.dir = MdDir /\ p # clFailing))

\* a call with several paths, the delete of the first failed, a later one was
\* deleted; and a request that succeeded although its delete failed
C19_Witness ==
  /\ clPc = "returned"
  /\ Len(clPaths) >= 2
  /\ clPaths[1] = clFailing
  /\ Exists(clFiles, clFailing) /\ clFailing.dir = MdDir
  /\ Exists(clAfter, clFailing)
  /\ \E i \in 2..Len(clPaths) :
       /\ clPaths[i] # clFailing
       /\ Exists(clFiles, clPaths[i])
       /\ ~Exists(clAfter, clPaths[i])
  /\ \E r \in Reqs : Succeeded(r) /\ Has(log[r], "unlinkFailed")

\* the operation is past its validation and has chosen its final file name
C20_Named(r) == req[r].op \in {"md", "wordMd"} /\ loc[r].name # <<>>

\* the unique identifier generated for the operation's file name
C20_Id(r) == loc[r].name[Len(loc[r].name)].uuid

\* C20: of two concurrent generateMarkdown operations, or two generateWord
\* operations, with the same fileName and different generated identifiers, each
\* keeps its own output file: the paths written differ, the file an operation
\* wrote is there and its own until its own cleanup, its upload reads its own
\* document, what is stored for it is that document, and none fails because
\* its file is gone.
C20_UniqueIdsPreventConflicts ==
  \A r \in Reqs : \A s \in Reqs \ {r} :
    (/\ C20_Named(r) /\ C20_Named(s)
     /\ req[r].op = req[s].op
     /\ req[r].body.fileName = req[s].body.fileName
     /\ C20_Id(r) # C20_Id(s))
      => /\ (loc[r].wrote /\ loc[s].wrote) => loc[r].path # loc[s].path
         /\ pc[r] \in {"written", "uploading"}
              => (Exists(files, loc[r].path) /\ files[loc[r].path].by = r)
         /\ loc[r].read \in {NoContent, [by |-> r]}
         /\ \A u \in storage : u.by = r => u.content \in {NoContent, [by |-> r]}
         /\ ~FailedAtStat(r)

\* two generateMarkdown operations with the same fileName at the same moment,
\* both uploading, each file in place under its own path
C20_Witness ==
  /\ req["r1"].op = "md" /\ req["r2"].op = "md"
  /\ req["r1"].body.fileName = <<Lit("report")>>
  /\ req["r2"].body.fileName = <<Lit("report")>>
  /\ pc["r1"] = "uploading" /\ pc["r2"] = "uploading"
  /\ C20_Id("r1") # C20_Id("r2")
  /\ loc["r1"].path # loc["r2"].path
  /\ Exists(files, loc["r1"].path) /\ Exists(files, loc["r2"].path)

====
